---------------------------- MODULE Spec2Model ----------------------------
(***************************************************************************)
(* guardian-toolkit: the baseline codemod (codemod/src/baselineCodemod.ts  *)
(* and its CLI), the editor rewriter with its BaselineChecker             *)
(* (vscode-extension/src) and the ESLint rule no-nonbaseline, each with    *)
(* its classifier gateway (checkFeature) and verdict cache.                *)
(*                                                                         *)
(* Source text is represented by its syntax tree: a node is a record       *)
(* [k, ch, css] with k the node kind, ch the child expressions and css the *)
(* quasis of a template literal (sequences of CSS tokens).  Offsets are    *)
(* counted in tokens of the printed tree.                                  *)
(***************************************************************************)
EXTENDS Integers, Sequences, FiniteSets, TLC

\* ------------------------------------------------------------- bounds
\* nesting depth of the call expressions in a generated source file
MaxDepth == 2
\* number of clock ticks that make up one cache TTL (5 minutes)
TicksPerTTL == 2
\* number of CLI invocations in one behaviour
MaxRuns == 2
\* number of times the external source may change its answer for a feature
MaxApiChanges == 1

\* ------------------------------------------------------ syntax trees
Node(kind, kids) == [k |-> kind, ch |-> kids, css |-> <<>>]
Tpl(quasis) == [k |-> "tpl", ch |-> <<>>, css |-> quasis]
Id == Node("id", <<>>)
Arg == Node("arg", <<>>)
Bad == Node("bad", <<>>)
Prog(stmts) == Node("program", stmts)

\* CSS tokens inside a template literal:
\*   G   `display: grid`                 C   `@container (min-width: 300px) {`
\*   N   `@container sidebar`            H   `:has(img)`
\*   F   `display: flex; /* fallback */` X   ` }`
\*   S   `@supports (container-type: inline-size) {`
\*   AT  `@container `                   E   `${...}`
\*   o   any other text
RECURSIVE SumSeq(_)
SumSeq(s) == IF s = <<>> THEN 0 ELSE Head(s) + SumSeq(Tail(s))

RECURSIVE ConcatAll(_)
ConcatAll(ss) == IF ss = <<>> THEN <<>> ELSE Head(ss) \o ConcatAll(Tail(ss))

SeqToSet(s) == {s[i] : i \in DOMAIN s}

\* tokens printed before child i of a node of kind k (after the previous child)
Lead(k, i) ==
  CASE k \in {"fetch", "allSettled", "cond", "polycall"} -> 1
    [] k = "replaceAll" -> IF i = 1 THEN 0 ELSE 1
    [] k = "replace" -> IF i = 1 THEN 0 ELSE 2
    [] OTHER -> 0

\* tokens printed after the last child of a node of kind k
Trail(k) ==
  CASE k \in {"fetch", "allSettled", "replaceAll", "replace", "polycall"} -> 1
    [] k = "cond" -> 2
    [] OTHER -> 0

\* number of tokens the printed node takes
RECURSIVE Width(_)
Width(t) ==
  CASE t.k \in {"id", "arg", "bad"} -> 1
    [] t.k = "tpl" -> 2 + Len(ConcatAll(t.css)) + (Len(t.css) - 1)
    [] OTHER -> SumSeq([i \in DOMAIN t.ch |-> Lead(t.k, i) + Width(t.ch[i])])
                + Trail(t.k)

\* offset of child i of node t, when t starts at offset base
ChildStart(t, base, i) ==
  base + SumSeq([j \in 1..(i - 1) |-> Lead(t.k, j) + Width(t.ch[j])]) + Lead(t.k, i)

\* root.find(j.CallExpression, ...) / root.find(j.TemplateLiteral): the nodes
\* of one kind in document order (pre-order), each with its source range
RECURSIVE Find(_, _, _)
Find(t, kind, base) ==
  LET here == IF t.k = kind
              THEN <<[start |-> base, end |-> base + Width(t), node |-> t]>>
              ELSE <<>>
      below == ConcatAll([i \in DOMAIN t.ch |->
                             Find(t.ch[i], kind, ChildStart(t, base, i))])
  IN here \o below

\* ------------------------------------------------- rewrite rules (codemod)
\* the script features of the codemod, in the order transformJavaScript takes
\* them, and the call expression each one matches
JSFeatures == <<"fetch", "string-replaceall", "promise-allsettled">>
JSKind(f) ==
  CASE f = "fetch" -> "fetch"
    [] f = "string-replaceall" -> "replaceAll"
    [] f = "promise-allsettled" -> "allSettled"

\* the replacement node built for one matched call expression `me`
\* (its children already rewritten)
Wrap(kind, me) ==
  CASE kind = "fetch" -> Node("cond", <<me>>)
    [] kind = "replaceAll" -> Node("replace", <<me.ch[1], me.ch[2], me.ch[3]>>)
    [] kind = "allSettled" -> Node("polycall", me.ch)

\* paths.forEach(path => path.replace(...)), outer matches before inner ones.
\* path.replace puts the new node into the slot of the old parent.  The
\* fetch and allSettled replacements keep the matched node or its arguments
\* array, so a replacement made below them later shows in the tree.  The
\* replaceAll replacement takes receiver and arguments out of the old call:
\* when one of them is itself a replaceAll call, its replacement lands in the
\* old call, which is no longer part of the tree, and the inner call stays.
RECURSIVE Rewrite(_, _)
RECURSIVE Below(_, _)
\* node t kept, the matches below it replaced
Below(t, kind) == [t EXCEPT !.ch = [i \in DOMAIN t.ch |-> Rewrite(t.ch[i], kind)]]

Rewrite(t, kind) ==
  IF t.k # kind THEN Below(t, kind)
  ELSE IF kind = "replaceAll"
       THEN Wrap(kind, [t EXCEPT !.ch = [i \in DOMAIN t.ch |-> Below(t.ch[i], kind)]])
       ELSE Wrap(kind, Below(t, kind))

\* quasis.map(q => q.value.raw).join('${...}')
RECURSIVE JoinQuasis(_)
JoinQuasis(qs) ==
  IF Len(qs) = 0 THEN <<>>
  ELSE IF Len(qs) = 1 THEN qs[1]
  ELSE qs[1] \o <<"E">> \o JoinQuasis(Tail(qs))

\* the filter of transformCSS: includes('display:') || includes('@container')
\* || includes(':has(') on the raw quasis
CssLike(t) ==
  t.k = "tpl" /\ SeqToSet(ConcatAll(t.css)) \cap {"G", "F", "C", "N", "AT", "H"} # {}

RECURSIVE CountCss(_)
CountCss(t) ==
  IF CssLike(t) THEN 1 ELSE SumSeq([i \in DOMAIN t.ch |-> CountCss(t.ch[i])])

\* root.find(j.TemplateLiteral).filter(...): the CSS-like template literals in
\* document order, with their ranges
CssStrings(t) == SelectSeq(Find(t, "tpl", 0), LAMBDA m : CssLike(m.node))

\* String.prototype.replace(/re/g, repl) on a token sequence: every token
\* `tok` becomes the tokens `repl`
RECURSIVE ReplaceTok(_, _, _)
ReplaceTok(s, tok, repl) ==
  IF s = <<>> THEN <<>>
  ELSE (IF Head(s) = tok THEN repl ELSE <<Head(s)>>) \o ReplaceTok(Tail(s), tok, repl)

\* cssText.replace(/display:\s*grid/gi, 'display: flex; /* fallback */\n  display: grid;')
GridRewrite(css) == ReplaceTok(css, "G", <<"F", "G">>)
\* cssText.replace(/@container\s*\([^}]+\)\s*{/gi,
\*                 '@supports (container-type: inline-size) { @container $& }')
ContainerRewrite(css) == ReplaceTok(css, "C", <<"S", "AT", "C", "X">>)

\* /display:\s*grid/i.test(cssText) and /@container/.test(cssText)
GridTest(css) == "G" \in SeqToSet(css)
ContainerTest(css) == SeqToSet(css) \cap {"C", "N", "AT"} # {}

\* path.value.quasis = [templateElement(cssText)]; path.value.expressions = []
\* on the n-th CSS-like template literal (document order)
RECURSIVE SetTpl(_, _, _)
SetTpl(t, n, css) ==
  IF CssLike(t) THEN (IF n = 1 THEN Tpl(<<css>>) ELSE t)
  ELSE [t EXCEPT !.ch = [i \in DOMAIN t.ch |->
          SetTpl(t.ch[i], n - SumSeq([j \in 1..(i - 1) |-> CountCss(t.ch[j])]), css)]]

\* source range of the occurrences of the tokens `toks` in the template
\* literal that starts at offset `base` (first to last occurrence)
TokRange(base, css, toks) ==
  LET idx == {i \in DOMAIN css : css[i] \in toks}
      lo == CHOOSE i \in idx : \A j \in idx : i <= j
      hi == CHOOSE i \in idx : \A j \in idx : i >= j
  IN [start |-> base + lo, end |-> base + hi + 1]

\* ------------------------------------------------------------ inputs
RECURSIVE Exprs(_)
Exprs(d) ==
  IF d = 0 THEN {Id}
  ELSE LET E == Exprs(d - 1)
       IN E \cup {Node("fetch", <<e>>) : e \in E}
            \cup {Node("replaceAll", <<Id, e, Arg>>) : e \in E}
            \cup {Node("allSettled", <<e>>) : e \in E}

\* template literals holding CSS: a grid rule, two grid rules, a container
\* query around a grid rule, a named container query, a grid rule next to an
\* interpolated expression, a :has() selector
Templates ==
  {Tpl(<<<<"G">>>>), Tpl(<<<<"G", "o", "G">>>>), Tpl(<<<<"C", "G", "X">>>>),
   Tpl(<<<<"N">>>>), Tpl(<<<<"G">>, <<"o">>>>), Tpl(<<<<"H">>>>)}

Stmts(d) == (Exprs(d) \ {Id}) \cup Templates

\* source files: one statement, or two call statements of lesser depth, or
\* text that is not valid TSX
Programs ==
  {Prog(<<s>>) : s \in Stmts(MaxDepth)}
    \cup {Prog(<<s1, s2>>) : s1, s2 \in Exprs(MaxDepth - 1) \ {Id}}
    \cup {Prog(<<Bad>>)}

\* the files of the working directory, by extension
FileNames == {"a.mjs", "b.js"}
ExtName(path) ==
  CASE path = "b.js" -> ".js"
    [] path = "c.css" -> ".css"
    [] OTHER -> ".mjs"
\* glob(filePattern): the file lists a pattern can expand to, given the
\* files that exist
Globs(d) ==
  {<<f>> : f \in DOMAIN d}
    \cup (IF DOMAIN d = FileNames THEN {<<"a.mjs", "b.js">>} ELSE {})

\* ------------------------------------------- editor rewriter (CodeRewriter)
\* The text of an editor document is a sequence of tokens:
\*   G  `display: grid`      @c `@container (`     :has( `:has(`
\*   )  {  }  ,              q  a quote character  fetch( `fetch(`
\*   .replaceAll(  Promise.allSettled(  <dialog    lazy `loading="lazy"`
\*   F  `display: flex; /* Fallback */`            @s `@supports (`
\*   AT `@container `        $1 $2 $&              u v w  other text
\* CodeRewriter.rewriteRules, in order: the feature of each rule.  The eight
\* built-in rules are followed by the rule addCustomRewriteRule may append: a
\* rule for `subgrid` whose pattern is that of the grid rule.
RuleFeatures ==
  <<"grid", "container-queries", "has-selector", "fetch", "string-replaceall",
    "promise-allsettled", "dialog", "lazy-loading", "subgrid">>

\* CodeRewriter.rewriteRules, in order: the `to` template of each rule
RuleTo ==
  << <<"F", "G">>,
     <<"@s", "w", ")", "{", "AT", "$&", "}">>,
     <<"w", ":has(", ")", "w">>,
     <<"w", "q", "w", "q", ")", "{", "fetch(", "q", "$1", "q", ")", "}", "w", "{",
       "w", ")", "w", "q", "w", "q", ",", "q", "$1", "q", ")", "w", ")", "w", "}">>,
     <<"w", "q", "$1", "q", ",", "q", "w", "q", ")", ",", "q", "$2", "q", ")">>,
     <<"w", ")", "w", "{", "w", "q", "w", "q", ",", "w", "}", ")", ",", "w", "{",
       "w", "q", "w", "q", ",", "w", "}", ")", ")", ")", ")", ")", ")", "w">>,
     <<"w", "q", "w", "q", "w", "q", "w", "q">>,
     <<"w", "q", "w", "q", "lazy">>,
     <<"G", "w">> >>

SetMax(S) == CHOOSE x \in S : \A y \in S : x >= y
SetMin(S) == CHOOSE x \in S : \A y \in S : x <= y

\* the rule's regular expression tried at position i (1-based) of the text:
\* the position after the match, or 0 when it does not match there
MatchEnd(r, text, i) ==
  LET n == Len(text)
      at(k) == IF k \in 1..n THEN text[k] ELSE "eof"
      str(k) == at(k) = "q" /\ at(k + 1) \notin {"q", "eof"} /\ at(k + 2) = "q"
  IN CASE r \in {1, 9} -> IF at(i) = "G" THEN i + 1 ELSE 0
       [] r = 2 ->
            \* @container\s*\([^}]+\)\s*{ : greedy up to the last `) {`
            \* that no `}` precedes
            LET js == {j \in (i + 2)..(n - 1) :
                         /\ at(j) = ")" /\ at(j + 1) = "{"
                         /\ \A k \in (i + 1)..(j - 1) : at(k) # "}"}
            IN IF at(i) = "@c" /\ js # {} THEN SetMax(js) + 2 ELSE 0
       [] r = 3 ->
            \* :has\([^)]+\) : up to the first `)`, at least one character in
            LET js == {j \in (i + 1)..n : at(j) = ")"}
            IN IF at(i) = ":has(" /\ js # {} /\ SetMin(js) > i + 1
               THEN SetMin(js) + 1 ELSE 0
       [] r = 4 -> IF at(i) = "fetch(" /\ str(i + 1) /\ at(i + 4) = ")"
                   THEN i + 5 ELSE 0
       [] r = 5 -> IF /\ at(i) = ".replaceAll(" /\ str(i + 1) /\ at(i + 4) = ","
                      /\ str(i + 5) /\ at(i + 8) = ")"
                   THEN i + 9 ELSE 0
       [] r = 6 -> IF at(i) = "Promise.allSettled(" THEN i + 1 ELSE 0
       [] r = 7 -> IF at(i) = "<dialog" THEN i + 1 ELSE 0
       [] r = 8 -> IF at(i) = "lazy" THEN i + 1 ELSE 0

NoMatch == [index |-> -1]

\* regex.exec(text) with the `g` flag and lastIndex = last: the leftmost match
\* at or after offset `last`, with match[0] and the capture groups
Exec(r, text, last) ==
  LET is == {i \in (last + 1)..Len(text) : MatchEnd(r, text, i) # 0}
  IN IF is = {} THEN NoMatch
     ELSE LET i == SetMin(is)
              e == MatchEnd(r, text, i)
          IN [index |-> i - 1, end |-> e - 1,
              groups |-> <<SubSeq(text, i, e - 1)>> \o
                         (CASE r = 4 -> <<<<text[i + 2]>>>>
                            [] r = 5 -> <<<<text[i + 2]>>, <<text[i + 6]>>>>
                            [] OTHER -> <<>>)]

\* String.prototype.replace(/tok/g, repl) with a replacement string: in the
\* replacement `$&` stands for the matched text
RECURSIVE ReplaceWith(_, _, _)
ReplaceWith(s, tok, repl) ==
  IF s = <<>> THEN <<>>
  ELSE (IF Head(s) = tok THEN ReplaceTok(repl, "$&", <<tok>>) ELSE <<Head(s)>>)
         \o ReplaceWith(Tail(s), tok, repl)

\* CodeRewriter.processRewriteRule(template, match)
RECURSIVE SubstGroups(_, _, _)
SubstGroups(result, groups, i) ==
  IF i > Len(groups) - 1 THEN result
  ELSE SubstGroups(ReplaceWith(result, IF i = 1 THEN "$1" ELSE "$2", groups[i + 1]),
                   groups, i + 1)

ProcessRewriteRule(template, groups) ==
  ReplaceWith(SubstGroups(template, groups, 1), "$&", groups[1])

\* ----------------------------------------------------- classifier gateway
\* what the /isSafe endpoint can answer: a 200 response carrying a safety
\* tier, or a failure (connection error, timeout, 404, 500)
Tiers == {"safe", "caution", "unsafe", "unknown"}
ApiAnswers == Tiers \cup {"fail"}
Data(ans) == [found |-> TRUE, safety |-> ans]

VARIABLES
  app,       \* the program this behaviour runs: "codemod", "editor", "eslint"
  disk,      \* file name -> content of the file
  api,       \* feature -> the answer the external source gives at present
  apiBudget, \* how many more times the external source may change an answer
  cache,     \* BaselineCodemod.cache: feature -> cached response
  timers,    \* pending setTimeout callbacks: [key, rem] (ticks until due)
  pending,   \* the axios requests in flight: [owner, key, fresh]
  cli,       \* the running command of the codemod CLI
  job,       \* the transformFile call in progress
  log,       \* completed transformFile calls, oldest first
  doc,       \* the text of the open editor document
  rw,        \* the analyzeAndRewrite call of the editor
  ret,       \* what the latest checkFeature call of another editor command returned
  callsLeft, \* how many more checkFeature calls other editor commands make
  lint,      \* the ESLint rule no-nonbaseline: its runs, pendingChecks and reports
  locked     \* the files that cannot be written (fs.writeFileSync throws)

vars == <<app, disk, api, apiBudget, cache, timers, pending, cli, job, log, doc, rw,
          ret, callsLeft, lint, locked>>
codVars == <<disk, cli, job, log, locked>>
edVars == <<doc, rw, ret, callsLeft>>

\* whether the external source answered for the key less than one TTL ago:
\* the eviction timer armed with that answer has not come due
Fresh(key, tm) == \E t \in tm : t.key = key

\* BaselineCodemod.isJSFile
IsJSFile(path) == ExtName(path) \in {".js", ".jsx", ".ts", ".tsx"}

\* jscodeshift.withParser('tsx')(source) succeeds: no invalid text, and no
\* template literal whose text holds a literal `${...}`
RECURSIVE Parses(_)
Parses(t) ==
  /\ t.k # "bad"
  /\ "E" \notin SeqToSet(ConcatAll(t.css))
  /\ \A i \in DOMAIN t.ch : Parses(t.ch[i])

\* a catch block that reports the feature as found
FallbackFound == [found |-> TRUE, safety |-> "unknown"]

\* the verdict checkFeature synthesizes in its catch block
Fallback == [found |-> FALSE, safety |-> "unknown"]

\* a gate that ignores the tier
GateAnyTier(v) == v.found

\* the condition under which a verdict lets a rewrite happen
Gate(v) == v.found /\ v.safety # "safe"

\* a transformFile that writes whatever changed
ShouldWriteAlways(hasChanges, dryRun) == hasChanges

\* transformFile: whether the result is written back
ShouldWrite(hasChanges, dryRun) == hasChanges /\ ~dryRun

NoJob == [st |-> "idle"]
\* no analyzeAndRewrite call made; the rewriter has its built-in rules
NoRewrite == [st |-> "idle", nrules |-> Len(RuleFeatures) - 1, flags |-> "gi"]
NoRet == [owner |-> "none"]
NoLint == [run |-> 0]

\* number of CSS-like template literals of the job's tree
NTpl(j) == CountCss(j.root)
EndStage(j) == 4 + 2 * NTpl(j)
TplIndex(j) == (j.stage - 4) \div 2 + 1
IsGridStage(j) == j.stage >= 4 /\ j.stage < EndStage(j) /\ (j.stage - 4) % 2 = 0
IsContainerStage(j) == j.stage >= 4 /\ j.stage < EndStage(j) /\ (j.stage - 4) % 2 = 1

\* the feature whose verdict the job's stage asks for
StageFeature(j) ==
  CASE j.stage \in 1..3 -> JSFeatures[j.stage]
    [] IsGridStage(j) -> "grid"
    [] OTHER -> "container-queries"

\* the matches of the job's stage: ranges in the original source
StageMatches(j) ==
  CASE j.stage \in 1..3 ->
         [i \in DOMAIN Find(j.source, JSKind(JSFeatures[j.stage]), 0) |->
            LET m == Find(j.source, JSKind(JSFeatures[j.stage]), 0)[i]
            IN [start |-> m.start, end |-> m.end]]
    [] IsGridStage(j) ->
         IF GridTest(j.cssText)
         THEN <<TokRange(CssStrings(j.source)[TplIndex(j)].start,
                         JoinQuasis(CssStrings(j.source)[TplIndex(j)].node.css),
                         {"G"})>>
         ELSE <<>>
    [] OTHER ->
         IF ContainerTest(j.cssText)
         THEN <<TokRange(CssStrings(j.source)[TplIndex(j)].start,
                         JoinQuasis(CssStrings(j.source)[TplIndex(j)].node.css),
                         {"C", "N", "AT"})>>
         ELSE <<>>

\* the part of the source one verdict decides upon: the whole file for a
\* script feature, the template literal for a CSS feature
StageScope(j) ==
  IF j.stage \in 1..3 THEN [start |-> 0, end |-> Width(j.source)]
  ELSE [start |-> CssStrings(j.source)[TplIndex(j)].start,
        end |-> CssStrings(j.source)[TplIndex(j)].end]

\* entering a stage: the grid stage of a template literal reads its cssText
Enter(j, stage) ==
  LET j1 == [j EXCEPT !.stage = stage]
  IN IF IsGridStage(j1)
     THEN [j1 EXCEPT !.cssText = JoinQuasis(CssStrings(j.root)[TplIndex(j1)].node.css),
                     !.modified = FALSE]
     ELSE j1

\* a transformCSS that writes every CSS template literal back and reports a
\* change whether or not a rule fired
LeaveAlways(j) ==
  IF IsContainerStage(j)
  THEN [j EXCEPT !.root = SetTpl(j.root, TplIndex(j), j.cssText), !.hasChanges = TRUE]
  ELSE j

\* leaving a stage: after the container stage a modified template literal is
\* written back to the tree
Leave(j) ==
  IF IsContainerStage(j) /\ j.modified
  THEN [j EXCEPT !.root = SetTpl(j.root, TplIndex(j), j.cssText), !.hasChanges = TRUE]
  ELSE j

Advance(j) == Enter(Leave(j), j.stage + 1)

\* one `if (matches) { verdict = await checkFeature(f); if (gate) {...} }`
\* block of transformJavaScript / transformCSS, given the verdict
ApplyStage(j, v, failed, hit) ==
  LET f == StageFeature(j)
      ms == StageMatches(j)
      call == [feature |-> f, found |-> v.found, safety |-> v.safety,
               failed |-> failed, hit |-> hit,
               start |-> StageScope(j).start, end |-> StageScope(j).end]
      j1 == [j EXCEPT !.calls = Append(@, call)]
      recs == [i \in DOMAIN ms |-> [feature |-> f, start |-> ms[i].start, end |-> ms[i].end]]
  IN IF ~Gate(v) THEN Advance(j1)
     ELSE IF j.stage \in 1..3
     THEN Advance([j1 EXCEPT !.root = Rewrite(j.root, JSKind(f)),
                             !.hasChanges = TRUE,
                             !.trans = @ \o recs])
     ELSE Advance([j1 EXCEPT !.cssText = IF f = "grid" THEN GridRewrite(@)
                                         ELSE ContainerRewrite(@),
                             !.modified = TRUE,
                             !.trans = @ \o recs])

\* a checkFeature that stores what it returns, the fallback included
StoreAlways(c, key, result, ok) == (key :> result) @@ c

\* the cache after checkFeature's request settled: `cache.set(key, result)`
\* is in the try block after the awaited post, the catch block stores nothing
Store(c, key, result, ok) == IF ok THEN (key :> result) @@ c ELSE c

\* a cache that answers every hit with the fallback verdict
CachedStale(c, key) == [found |-> FALSE, safety |-> "unknown"]

\* checkFeature on a hit: return this.cache.get(feature)
Cached(c, key) == c[key]

\* a pass that asks the classifier about every feature of the catalogue
SkipsNever(ms) == FALSE

\* `if (fetchCalls.length > 0)` and the regex tests of transformCSS: a
\* feature without a match in the file is passed over
Skips(ms) == ms = <<>>

\* the job runs on (no await suspends it) until checkFeature misses the cache
\* or transformSource returns
RECURSIVE RunJob(_, _)
RunJob(j, c) ==
  IF j.stage >= EndStage(j) THEN [j EXCEPT !.st = "done"]
  ELSE IF Skips(StageMatches(j)) THEN RunJob(Advance(j), c)
  ELSE IF StageFeature(j) \in DOMAIN c
       THEN RunJob(ApplyStage(j, Cached(c, StageFeature(j)), FALSE, TRUE), c)
       ELSE [j EXCEPT !.st = "wait"]

\* ------------------------------------------------------- codemod actions
\* what transformSource returns
ResultOf(j) ==
  [hasChanges |-> j.hasChanges, transformations |-> j.trans,
   source |-> IF j.hasChanges THEN j.root ELSE j.source]

\* a file a write was cut short in: a beginning of the text being written
Torn(t) == Node("torn", <<>>)

\* a summary that counts every processed file
CountedAlways(hasChanges, n, by) == n + by

\* the CLI loop's `if (result.hasChanges) { totalFiles++;
\* totalTransformations += result.transformations.length; }`
Counted(hasChanges, n, by) == IF hasChanges THEN n + by ELSE n

\* transformFile's tail and the CLI loop body after it: write the file back,
\* count, take the next file
FinishFile(j) ==
  LET r == ResultOf(j)
  IN IF ShouldWrite(r.hasChanges, j.dryRun) /\ j.path \in locked
     THEN \* writeFileSync throws, transformFile rejects, the command's catch
          \* block exits with 1
          /\ cli' = [cli EXCEPT !.status = "exit1", !.error = "write"]
          /\ job' = NoJob
          /\ UNCHANGED <<disk, log>>
     ELSE
     \/ /\ disk' = IF ShouldWrite(r.hasChanges, j.dryRun)
                   THEN [disk EXCEPT ![j.path] = r.source]
                   ELSE disk
        /\ log' = Append(log, [path |-> j.path, dryRun |-> j.dryRun, input |-> j.source,
                               result |-> r, calls |-> j.calls, run |-> cli.run,
                               after |-> disk'[j.path],
                               wrote |-> ShouldWrite(r.hasChanges, j.dryRun)])
        /\ cli' = [cli EXCEPT !.queue = Tail(@),
                              !.totalFiles = Counted(r.hasChanges, @, 1),
                              !.totalTransformations =
                                 Counted(r.hasChanges, @, Len(r.transformations))]
        /\ job' = NoJob
     \/ \* the process dies inside fs.writeFileSync(filePath, source), which
        \* truncates the file and then writes the new text into it
        /\ ShouldWrite(r.hasChanges, j.dryRun)
        /\ disk' = [disk EXCEPT ![j.path] = Torn(r.source)]
        /\ cli' = [cli EXCEPT !.status = "crashed"]
        /\ job' = NoJob
        /\ log' = log

Settle(j, tm) ==
  /\ IF j.st = "done" THEN FinishFile(j)
     ELSE job' = j /\ UNCHANGED <<disk, log, cli>>
  /\ pending' = IF j.st = "wait"
                THEN {[owner |-> "job", key |-> StageFeature(j),
                       fresh |-> Fresh(StageFeature(j), tm)]}
                ELSE {}

\* `baseline-codemod transform <files> [--dry-run]`: a new process with a new
\* BaselineCodemod (empty cache, no timers)
CliTransform(files, dryRun) ==
  /\ app = "codemod"
  /\ cli.status # "running"
  /\ cli.left > 0
  /\ cli' = [status |-> "running", files |-> files, queue |-> files, dryRun |-> dryRun,
             totalFiles |-> 0, totalTransformations |-> 0,
             left |-> cli.left - 1, run |-> cli.run + 1, error |-> "none"]
  /\ cache' = <<>>
  /\ timers' = {}
  /\ pending' = {}
  /\ UNCHANGED <<app, disk, api, apiBudget, job, log, edVars, lint, locked>>

\* transformFile(file): read, parse, and run up to the first cache miss
StartFile ==
  /\ app = "codemod"
  /\ cli.status = "running"
  /\ job.st = "idle"
  /\ cli.queue # <<>>
  /\ LET path == Head(cli.queue)
         src == disk[path]
         j0 == [st |-> "run", path |-> path, dryRun |-> cli.dryRun, source |-> src,
                root |-> src, trans |-> <<>>, hasChanges |-> FALSE, stage |-> 0,
                cssText |-> <<>>, modified |-> FALSE, calls |-> <<>>]
     IN IF ~Parses(src)
        THEN \* the parser throws; the command's catch block exits with 1
             /\ cli' = [cli EXCEPT !.status = "exit1", !.error = "parse"]
             /\ UNCHANGED <<disk, job, log, pending>>
        ELSE Settle(RunJob(Enter(j0, IF IsJSFile(path) THEN 1 ELSE 4), cache), timers)
  /\ UNCHANGED <<app, api, apiBudget, cache, timers, edVars, lint, locked>>

\* the answer of the external source to a request for feature f
Answers(f) ==
  IF f \in DOMAIN api /\ apiBudget = 0 THEN {api[f]} ELSE ApiAnswers

AnswerEffect(f, ans) ==
  /\ api' = (f :> ans) @@ api
  /\ apiBudget' = IF f \in DOMAIN api /\ api[f] # ans THEN apiBudget - 1 ELSE apiBudget

\* the axios.post of checkFeature settles: on success the response is
\* cached and its eviction timer armed, on failure the fallback is returned
Respond(ans) ==
  /\ app = "codemod"
  /\ job.st = "wait"
  /\ LET f == StageFeature(job)
         ok == ans # "fail"
         c1 == Store(cache, f, IF ok THEN Data(ans) ELSE Fallback, ok)
         tm1 == IF ok THEN timers \cup {[key |-> f, rem |-> TicksPerTTL]} ELSE timers
     IN /\ ans \in Answers(f)
        /\ AnswerEffect(f, ans)
        /\ cache' = c1
        /\ timers' = tm1
        /\ Settle(RunJob(ApplyStage([job EXCEPT !.st = "run"],
                                    IF ok THEN Data(ans) ELSE Fallback, ~ok, FALSE), c1),
                  tm1)
  /\ UNCHANGED <<app, edVars, lint, locked>>

\* the command ends after its loop: summary, exit code 0
CliDone ==
  /\ app = "codemod"
  /\ cli.status = "running"
  /\ job.st = "idle"
  /\ cli.queue = <<>>
  /\ cli' = [cli EXCEPT !.status = "exit0"]
  /\ UNCHANGED <<app, disk, api, apiBudget, cache, timers, pending, job, log, edVars,
                 lint, locked>>

\* d ticks pass; the timers that come due run: cache.delete(key).  The
\* entries of the ESLint rule's cache age instead (Date.now() - timestamp).
Tick(d) ==
  /\ IF app = "eslint"
     THEN /\ \E f \in DOMAIN cache : cache[f].age < TicksPerTTL
          /\ cache' = [f \in DOMAIN cache |->
                         [cache[f] EXCEPT !.age = IF @ + d > TicksPerTTL
                                                  THEN TicksPerTTL ELSE @ + d]]
          /\ timers' = timers
     ELSE /\ timers # {}
          /\ LET due == {t.key : t \in {u \in timers : u.rem <= d}}
             IN /\ timers' = {[t EXCEPT !.rem = @ - d] : t \in {u \in timers : u.rem > d}}
                /\ cache' = [f \in DOMAIN cache \ due |-> cache[f]]
  /\ UNCHANGED <<app, api, apiBudget, pending, codVars, edVars, lint>>

\* a full TTL passes
Elapse == Tick(TicksPerTTL)

\* ------------------------------------------------------- editor actions
\* number of checkFeature calls other editor commands may have in flight
MaxCallers == 2
\* number of checkFeature calls other editor commands make in one behaviour
MaxCalls == 3
\* the commands that call checkFeature beside the rewriter
Callers == {ToString(i) : i \in 1..MaxCallers}

\* featureName.toLowerCase().trim() on the names the editor passes
Normalize(name) == IF name = " Grid" THEN "grid" ELSE name

\* the verdict BaselineChecker.checkFeature synthesizes in its catch block
EditorFallback == [found |-> FALSE, safety |-> "unsafe"]

\* the condition under which the editor flags an occurrence
IsUnsafe(v) == v.found /\ v.safety # "safe"

\* regex.lastIndex after exec returned match m: the end of the match under
\* the `g` flag (every built-in rule has it); without the flag exec leaves
\* lastIndex at 0 and searches from the start of the text again
LastIndex(w, m) ==
  IF w.rule = Len(RuleFeatures) /\ w.flags = "i" THEN 0 ELSE m.end

\* `while ((match = regex.exec(text)) !== null)` gets a match it has handled
\* before: nothing the condition reads has changed, the loop repeats for ever
Repeats(w, m) ==
  /\ LastIndex(w, m) <= m.index
  /\ \E c \in DOMAIN w.calls :
       w.calls[c].feature = RuleFeatures[w.rule] /\ w.calls[c].start = m.index

\* a match loop that suggests one rewrite per feature and lists every
\* occurrence
ApplyMatchOnce(w, m, v, failed, hit) ==
  LET f == RuleFeatures[w.rule]
      call == [feature |-> f, found |-> v.found, safety |-> v.safety,
               failed |-> failed, hit |-> hit, start |-> m.index, end |-> m.end]
      w1 == [w EXCEPT !.calls = Append(@, call), !.last = LastIndex(w, m), !.st = "run"]
  IN IF IsUnsafe(v)
     THEN [w1 EXCEPT
             !.unsafe = Append(@, [name |-> f, start |-> m.index,
                                   length |-> m.end - m.index,
                                   currentCode |-> m.groups[1], safety |-> v.safety]),
             !.rewrites = IF \E r \in DOMAIN @ : @[r].feature = f THEN @
                          ELSE Append(@, [start |-> m.index, end |-> m.end,
                                          newCode |-> ProcessRewriteRule(RuleTo[w.rule],
                                                                         m.groups),
                                          feature |-> f])]
     ELSE w1

\* the body of the while loop of analyzeAndRewrite for match m, given the
\* verdict of checkFeature
ApplyMatch(w, m, v, failed, hit) ==
  LET f == RuleFeatures[w.rule]
      call == [feature |-> f, found |-> v.found, safety |-> v.safety,
               failed |-> failed, hit |-> hit, start |-> m.index, end |-> m.end]
      w1 == [w EXCEPT !.calls = Append(@, call), !.last = LastIndex(w, m), !.st = "run"]
  IN IF IsUnsafe(v)
     THEN [w1 EXCEPT
             !.unsafe = Append(@, [name |-> f, start |-> m.index,
                                   length |-> m.end - m.index,
                                   currentCode |-> m.groups[1], safety |-> v.safety]),
             !.rewrites = Append(@, [start |-> m.index, end |-> m.end,
                                     newCode |-> ProcessRewriteRule(RuleTo[w.rule], m.groups),
                                     feature |-> f])]
     ELSE w1

\* analyzeAndRewrite runs on until checkFeature misses the cache or the last
\* rule is done
RECURSIVE RunRewrite(_, _)
RunRewrite(w, c) ==
  IF w.rule > w.nrules THEN [w EXCEPT !.st = "done"]
  ELSE LET m == Exec(w.rule, w.text, w.last)
           key == Normalize(RuleFeatures[w.rule])
       IN IF m = NoMatch THEN RunRewrite([w EXCEPT !.rule = @ + 1, !.last = 0], c)
          ELSE IF Repeats(w, m) THEN [w EXCEPT !.st = "spin"]
          ELSE IF key \in DOMAIN c
               THEN RunRewrite(ApplyMatch(w, m, c[key], FALSE, TRUE), c)
               ELSE [w EXCEPT !.st = "wait"]

SettleRewrite(w, tm) ==
  /\ rw' = w
  /\ pending' = {r \in pending : r.owner # "rw"} \cup
                (IF w.st = "wait"
                 THEN {[owner |-> "rw", key |-> Normalize(RuleFeatures[w.rule]),
                        fresh |-> Fresh(Normalize(RuleFeatures[w.rule]), tm)]}
                 ELSE {})

\* the command baseline-guard.rewriteUnsafeFeatures (or generateCodemod):
\* analyzeAndRewrite(document) up to its first cache miss
StartRewrite ==
  /\ app = "editor"
  /\ rw.st = "idle"
  /\ SettleRewrite(RunRewrite([st |-> "run", nrules |-> rw.nrules, flags |-> rw.flags,
                               text |-> doc,
                               rule |-> 1, last |-> 0,
                               unsafe |-> <<>>, rewrites |-> <<>>, calls |-> <<>>],
                              cache), timers)
  /\ UNCHANGED <<app, api, apiBudget, cache, timers, codVars, doc, ret, callsLeft, lint>>

\* what a checkFeature call of updateDiagnostics / checkSelectedFeature gets
\* back, and whether the caller flags the feature
Returned(o, key, v, failed, hit, fresh) ==
  [owner |-> o, key |-> key, found |-> v.found, safety |-> v.safety,
   failed |-> failed, hit |-> hit, fresh |-> fresh, flagged |-> IsUnsafe(v)]

\* another command of the extension (updateDiagnostics on a document change,
\* checkSelectedFeature) calls baselineChecker.checkFeature(name)
CallCheck(o, name) ==
  /\ app = "editor"
  /\ callsLeft > 0
  /\ \A r \in pending : r.owner # o
  /\ callsLeft' = callsLeft - 1
  /\ LET key == Normalize(name)
     IN IF key \in DOMAIN cache
        THEN /\ ret' = Returned(o, key, cache[key], FALSE, TRUE, Fresh(key, timers))
             /\ pending' = pending
        ELSE /\ pending' = pending \cup
                           {[owner |-> o, key |-> key, fresh |-> Fresh(key, timers)]}
             /\ ret' = ret
  /\ UNCHANGED <<app, api, apiBudget, cache, timers, codVars, doc, rw, lint>>

\* the axios.post of BaselineChecker.checkFeature settles for request req
RespondEditor(req, ans) ==
  /\ app = "editor"
  /\ req \in pending
  /\ ans \in Answers(req.key)
  /\ AnswerEffect(req.key, ans)
  /\ LET ok == ans # "fail"
         v == IF ok THEN Data(ans) ELSE EditorFallback
         c1 == Store(cache, req.key, v, ok)
         tm1 == IF ok THEN timers \cup {[key |-> req.key, rem |-> TicksPerTTL]}
                ELSE timers
     IN /\ cache' = c1
        /\ timers' = tm1
        /\ IF req.owner = "rw"
           THEN /\ SettleRewrite(RunRewrite(ApplyMatch(rw, Exec(rw.rule, rw.text, rw.last),
                                                       v, ~ok, FALSE), c1), tm1)
                /\ ret' = ret
           ELSE /\ ret' = Returned(req.owner, req.key, v, ~ok, FALSE, req.fresh)
                /\ pending' = pending \ {req}
                /\ rw' = rw
  /\ UNCHANGED <<app, codVars, doc, callsLeft, lint>>

\* `hasUnsafeFeatures: unsafeFeatures.length > 0` of the returned RewriteResult
HasUnsafeFeatures(w) == Len(w.unsafe) > 0

\* rewrites.sort((a, b) => b.range.start.compareTo(a.range.start)): stable,
\* descending by start
RECURSIVE InsertDesc(_, _)
InsertDesc(sorted, x) ==
  IF sorted = <<>> THEN <<x>>
  ELSE IF Head(sorted).start >= x.start
       THEN <<Head(sorted)>> \o InsertDesc(Tail(sorted), x)
       ELSE <<x>> \o sorted

RECURSIVE SortDesc(_)
SortDesc(list) ==
  IF list = <<>> THEN <<>>
  ELSE InsertDesc(SortDesc(SubSeq(list, 1, Len(list) - 1)), list[Len(list)])

\* editBuilder.replace(rewrite.range, rewrite.newCode)
ReplaceRange(text, e) ==
  SubSeq(text, 1, e.start) \o e.newCode \o SubSeq(text, e.end + 1, Len(text))

\* the edits of one editor.edit callback, in the order they were issued
RECURSIVE ApplyEdits(_, _)
ApplyEdits(text, edits) ==
  IF edits = <<>> THEN text
  ELSE ApplyEdits(ReplaceRange(text, Head(edits)), Tail(edits))

\* editor.edit refuses a set of edits with overlapping ranges
Clash(edits) ==
  \E a, b \in DOMAIN edits :
    a # b /\ edits[a].start < edits[b].end /\ edits[b].start < edits[a].end

\* rewriteUnsafeFeatures, choice 'Apply Rewrites': applyRewrites(editor,
\* rewriteResult.rewrites) sorts the list in place and issues the edits
ApplyRewrites ==
  /\ app = "editor"
  /\ rw.st = "done"
  /\ HasUnsafeFeatures(rw)
  /\ LET sorted == SortDesc(rw.rewrites)
     IN /\ rw' = [rw EXCEPT !.rewrites = sorted,
                            !.st = IF Clash(sorted) THEN "rejected" ELSE "applied"]
        /\ doc' = IF Clash(sorted) THEN doc ELSE ApplyEdits(doc, sorted)
  /\ UNCHANGED <<app, api, apiBudget, cache, timers, pending, codVars, ret, callsLeft,
                 lint>>

\* codeRewriter.addCustomRewriteRule(rule): this.rewriteRules.push(rule)
AddCustomRewriteRule(flags) ==
  /\ app = "editor"
  /\ rw.st = "idle"
  /\ rw.nrules < Len(RuleFeatures)
  /\ rw' = [rw EXCEPT !.nrules = @ + 1, !.flags = flags]
  /\ UNCHANGED <<app, api, apiBudget, cache, timers, pending, codVars, doc, ret, callsLeft,
                 lint>>

\* the documents under study: grid rules, a container query around a grid
\* rule, a container query whose block holds a :has() selector, a fetch call,
\* a replaceAll call, Promise.allSettled, a dialog with a lazy image
EditorDocs ==
  {<<"G">>, <<"G", "w", "G">>,
   <<"@c", "w", ")", "{", "G", "}">>,
   <<"@c", "w", ")", "{", "w", ":has(", "w", ")", "{", "}">>,
   <<"fetch(", "q", "u", "q", ")">>,
   <<"w", ".replaceAll(", "q", "u", "q", ",", "q", "v", "q", ")">>,
   <<"Promise.allSettled(", "w", ")">>,
   <<"<dialog", "lazy">>}

\* the names other editor commands ask about
CallerNames == {"grid", " Grid"}

InitEditor(docs, calls, budget) ==
  /\ app = "editor"
  /\ disk = <<>>
  /\ api = <<>>
  /\ apiBudget = budget
  /\ cache = <<>>
  /\ timers = {}
  /\ pending = {}
  /\ cli = [status |-> "idle"]
  /\ job = NoJob
  /\ log = <<>>
  /\ doc \in docs
  /\ rw = NoRewrite
  /\ ret = NoRet
  /\ callsLeft = calls
  /\ lint = NoLint
  /\ locked = {}

NextEditor ==
  \/ StartRewrite
  \/ \E o \in Callers, name \in CallerNames : CallCheck(o, name)
  \/ \E req \in pending, ans \in ApiAnswers : RespondEditor(req, ans)
  \/ ApplyRewrites

\* --------------------------------------------- ESLint rule no-nonbaseline
\* number of files one ESLint process lints
MaxLintRuns == 2

\* the statements of a linted file and, for each, the checkAndReport calls
\* its nodes make in traversal order (CallExpression before its callee)
Detections(stmt) ==
  CASE stmt = "x.at()" -> <<[label |-> "at", feature |-> "array-at"]>>
    [] stmt = "s.replaceAll()" ->
         <<[label |-> "replaceAll", feature |-> "string-replaceall"]>>
    [] stmt = "Promise.allSettled()" ->
         <<[label |-> "Promise.allSettled", feature |-> "promise-allsettled"],
           [label |-> "allSettled", feature |-> "promise-allsettled"]>>
    [] stmt = "navigator.clipboard.writeText()" ->
         <<[label |-> "clipboard.writeText", feature |-> "clipboard"],
           [label |-> "writeText", feature |-> "clipboard"],
           [label |-> "clipboard", feature |-> "clipboard"]>>
    [] stmt = "new AbortController()" ->
         <<[label |-> "AbortController", feature |-> "abortcontroller"]>>
    [] stmt = "css(':has(')" ->
         <<[label |-> "CSS :has() selector", feature |-> "has-selector"]>>
    [] OTHER -> <<>>

\* the checkAndReport calls of a whole file, each with the index of its node
Events(src) ==
  LET es == ConcatAll([i \in DOMAIN src |-> Detections(src[i])])
  IN [i \in DOMAIN es |-> [node |-> i, label |-> es[i].label, feature |-> es[i].feature]]

\* the pendingChecks guard during the synchronous traversal: the calls that
\* get past `if (pendingChecks.has(feature)) return`
RECURSIVE Started(_, _)
Started(es, labels) ==
  IF es = <<>> THEN <<>>
  ELSE IF Head(es).label \in labels THEN Started(Tail(es), labels)
  ELSE <<Head(es)>> \o Started(Tail(es), labels \cup {Head(es).label})

\* cache.has(key) && Date.now() - cached.timestamp < CACHE_TTL
LintHit(c, key) == key \in DOMAIN c /\ c[key].age < TicksPerTTL

\* the verdict the rule's checkFeature returns from its catch block
LintFallback == [found |-> FALSE, safety |-> "unknown"]

\* shouldReport(safety) under the rule's severity option
ShouldReport(severity, safety) ==
  CASE severity = "all" -> TRUE
    [] severity = "caution" -> safety \in {"unsafe", "caution"}
    [] OTHER -> safety = "unsafe"

\* result.found && result.safety && shouldReport(result.safety)
LintGate(v, severity) == v.found /\ ShouldReport(severity, v.safety)

LintCall(run, e, v, failed, hit) ==
  [run |-> run, node |-> e.node, label |-> e.label, feature |-> e.feature,
   found |-> v.found, safety |-> v.safety, failed |-> failed, hit |-> hit]

LintReport(run, e, v) ==
  [run |-> run, node |-> e.node, label |-> e.label, safety |-> v.safety]

\* ESLint lints the file (again): the traversal calls checkAndReport for every
\* detected node; after it the calls whose verdict was cached report, the
\* others wait for their request
LintFile ==
  /\ app = "eslint"
  /\ lint.run < MaxLintRuns
  /\ LET run == lint.run + 1
         st == Started(Events(lint.src), {})
         hits == SelectSeq(st, LAMBDA e : LintHit(cache, e.feature))
         miss == SelectSeq(st, LAMBDA e : ~LintHit(cache, e.feature))
         flagged == SelectSeq(hits, LAMBDA e : LintGate(cache[e.feature].data, lint.severity))
     IN /\ lint' = [lint EXCEPT
                      !.run = run,
                      !.calls = @ \o [i \in DOMAIN hits |->
                                        LintCall(run, hits[i], cache[hits[i].feature].data,
                                                 FALSE, TRUE)],
                      !.reports = @ \o [i \in DOMAIN flagged |->
                                          LintReport(run, flagged[i],
                                                     cache[flagged[i].feature].data)],
                      !.pendingChecks = @ \cup {[run |-> run, label |-> miss[i].label] :
                                                  i \in DOMAIN miss}]
        /\ pending' = pending \cup
                        {[owner |-> miss[i].label, key |-> miss[i].feature, fresh |-> FALSE,
                          run |-> run, node |-> miss[i].node] : i \in DOMAIN miss}
  /\ UNCHANGED <<app, api, apiBudget, cache, timers, codVars, edVars>>

\* the axios.post of the rule's checkFeature settles for request req
RespondLint(req, ans) ==
  /\ app = "eslint"
  /\ req \in pending
  /\ ans \in Answers(req.key)
  /\ AnswerEffect(req.key, ans)
  /\ LET ok == ans # "fail"
         v == IF ok THEN Data(ans) ELSE LintFallback
         e == [node |-> req.node, label |-> req.owner, feature |-> req.key]
     IN /\ cache' = Store(cache, req.key, [data |-> v, age |-> 0], ok)
        /\ lint' = [lint EXCEPT
                      !.calls = Append(@, LintCall(req.run, e, v, ~ok, FALSE)),
                      !.reports = IF LintGate(v, lint.severity)
                                  THEN Append(@, LintReport(req.run, e, v)) ELSE @,
                      !.pendingChecks = @ \ {[run |-> req.run, label |-> req.owner]}]
  /\ pending' = pending \ {req}
  /\ UNCHANGED <<app, timers, codVars, edVars>>

Severities == {"unsafe", "caution", "all"}

\* the linted files: one or two statements
LintStmts ==
  {"x.at()", "s.replaceAll()", "Promise.allSettled()", "css(':has(')"}
LintSources ==
  {<<a>> : a \in LintStmts} \cup {<<"s.replaceAll()", "s.replaceAll()">>}

InitLint(sources, severities, budget) ==
  /\ app = "eslint"
  /\ disk = <<>>
  /\ api = <<>>
  /\ apiBudget = budget
  /\ cache = <<>>
  /\ timers = {}
  /\ pending = {}
  /\ cli = [status |-> "idle"]
  /\ job = NoJob
  /\ log = <<>>
  /\ doc = <<>>
  /\ rw = NoRewrite
  /\ ret = NoRet
  /\ callsLeft = 0
  /\ locked = {}
  /\ \E src \in sources, sev \in severities :
       lint = [run |-> 0, src |-> src, severity |-> sev, calls |-> <<>>,
               reports |-> <<>>, pendingChecks |-> {}]

NextLint ==
  \/ LintFile
  \/ \E req \in pending, ans \in ApiAnswers : RespondLint(req, ans)

\* files beside the one under study
SidePrograms == {Prog(<<Node("fetch", <<Id>>), Tpl(<<<<"G">>>>)>>)}

InitCodemod(disks, locks, left, budget) ==
  /\ app = "codemod"
  /\ disk \in disks
  /\ locked \in locks
  /\ api = <<>>
  /\ apiBudget = budget
  /\ cache = <<>>
  /\ timers = {}
  /\ cli = [status |-> "idle", files |-> <<>>, queue |-> <<>>, dryRun |-> FALSE,
            totalFiles |-> 0, totalTransformations |-> 0, left |-> left, run |-> 0,
            error |-> "none"]
  /\ job = NoJob
  /\ log = <<>>
  /\ pending = {}
  /\ doc = <<>>
  /\ rw = NoRewrite
  /\ ret = NoRet
  /\ callsLeft = 0
  /\ lint = NoLint

NextCodemod ==
  \/ \E files \in Globs(disk), dryRun \in BOOLEAN : CliTransform(files, dryRun)
  \/ StartFile
  \/ \E ans \in ApiAnswers : Respond(ans)
  \/ CliDone

\* one file in the working directory
OneFile == {("b.js" :> p) : p \in Programs} \cup {("a.mjs" :> p) : p \in SidePrograms}

Init ==
  \/ InitCodemod(OneFile, {{}}, 1, MaxApiChanges)
  \/ InitEditor(EditorDocs, 1, MaxApiChanges)
  \/ InitLint(LintSources, Severities, 0)
Next == NextCodemod \/ NextEditor \/ NextLint \/ Elapse
Spec == Init /\ [][Next]_vars

\* the codemod run again and again over one working directory, the external
\* source keeping to its answers
RerunPrograms == {Prog(<<s>>) : s \in Stmts(MaxDepth - 1)}
TwoFiles ==
  {("a.mjs" :> s) @@ ("b.js" :> Prog(<<t>>)) : s \in SidePrograms, t \in Templates}
InitRerun ==
  InitCodemod({("b.js" :> p) : p \in RerunPrograms} \cup TwoFiles, {{}}, MaxRuns, 0)
NextRerun == NextCodemod \/ Elapse
SpecRerun == InitRerun /\ [][NextRerun]_vars

\* a batch of two files: the first may be text that does not parse, and
\* either file may be read-only
BatchDisks ==
  {("a.mjs" :> s) @@ ("b.js" :> Prog(<<t>>)) :
     s \in SidePrograms \cup {Prog(<<Bad>>)}, t \in {Node("fetch", <<Id>>), Tpl(<<<<"G">>>>)}}
InitBatch == InitCodemod(BatchDisks, {{}, {"a.mjs"}, {"b.js"}}, 1, 0)
NextBatch == NextCodemod \/ Elapse
SpecBatch == InitBatch /\ [][NextBatch]_vars

\* the synchronous stretch of the transform loop between two requests:
\* readFileSync, the parser and the traversal of the next file take d ticks.
\* A cache hit resumes the loop in a microtask, so no setTimeout callback runs
\* before a request is awaited again; the timers that come due wait.
Work(d) ==
  /\ app = "codemod"
  /\ cli.status = "running"
  /\ job.st = "idle"
  /\ \E t \in timers : t.rem > 0
  /\ timers' = {[t EXCEPT !.rem = IF @ > d THEN @ - d ELSE 0] : t \in timers}
  /\ UNCHANGED <<app, api, apiBudget, cache, pending, codVars, edVars, lint>>

\* the event loop is reached while a request is awaited: the callbacks of
\* the timers that are due run
RunTimers ==
  /\ app = "codemod"
  /\ job.st = "wait"
  /\ \E t \in timers : t.rem = 0
  /\ timers' = {t \in timers : t.rem > 0}
  /\ cache' = [f \in DOMAIN cache \ {t.key : t \in {u \in timers : u.rem = 0}} |-> cache[f]]
  /\ UNCHANGED <<app, api, apiBudget, pending, codVars, edVars, lint>>

\* a batch whose clock advances only where the code lets it: inside the
\* synchronous work on a file, or while a request is awaited
InitBusy == InitCodemod(TwoFiles, {{}}, 1, 0)
NextBusy ==
  \/ NextCodemod
  \/ \E d \in 1..TicksPerTTL : Work(d)
  \/ RunTimers
  \/ \E d \in 1..TicksPerTTL : job.st = "wait" /\ Tick(d)
SpecBusy == InitBusy /\ [][NextBusy]_vars

\* documents whose captured text or matched text itself looks like a
\* placeholder of a rewrite template
SubstDocs ==
  {<<"fetch(", "q", "u", "q", ")">>,
   <<"fetch(", "q", "$&", "q", ")">>,
   <<"fetch(", "q", "$1", "q", ")">>,
   <<"w", ".replaceAll(", "q", "u", "q", ",", "q", "v", "q", ")">>,
   <<"w", ".replaceAll(", "q", "$2", "q", ",", "q", "v", "q", ")">>,
   <<"w", ".replaceAll(", "q", "u", "q", ",", "q", "$&", "q", ")">>,
   <<"@c", "$&", ")", "{", "G", "}">>,
   <<"@c", "w", ")", "{", "G", "}">>}
InitSubst == InitEditor(SubstDocs, 1, 0)
NextSubst == NextEditor \/ Elapse
SpecSubst == InitSubst /\ [][NextSubst]_vars

\* ------------------------------------------------- the analyze command
\* The text of an analysed file is a sequence of tokens, one per thing a
\* pattern of analyzeFile can match: `fetch(`, `.replaceAll(`, `<dialog`,
\* G (`display: grid`), ...; w is any other text.
\* analyzeFile's patterns in order: the token each regex matches, its feature
AnPatterns ==
  << [tok |-> "fetch(", feature |-> "fetch"],
     [tok |-> ".replaceAll(", feature |-> "string-replaceall"],
     [tok |-> "Promise.allSettled", feature |-> "promise-allsettled"],
     [tok |-> "ResizeObserver", feature |-> "resizeobserver"],
     [tok |-> "IntersectionObserver", feature |-> "intersectionobserver"],
     [tok |-> "G", feature |-> "grid"],
     [tok |-> "container-type:", feature |-> "container-queries"],
     [tok |-> ":has(", feature |-> "has-selector"],
     [tok |-> "aspect-ratio:", feature |-> "aspect-ratio"],
     [tok |-> "<dialog", feature |-> "dialog"],
     [tok |-> "lazy", feature |-> "lazy-loading"] >>

\* a path glob returned that fs.readFileSync cannot read (a directory, no
\* permission)
Unreadable == <<"EISDIR">>

\* an analyze command that writes its findings into the analysed files
AnalyzeWritesSources(files, report) == SeqToSet(files)

\* the files the analyze command writes: the report, when --report is given
AnalyzeWrites(files, report) ==
  IF report THEN {"baseline-analysis-report.json"} ELSE {}

\* the body of `while ((match = pattern.regex.exec(source)) !== null)` for
\* the match at offset m, given the verdict checkFeature returned
AnalyzeMatch(j, m, v, failed) ==
  LET f == AnPatterns[j.pat].feature
      j1 == [j EXCEPT !.last = m, !.st = "run",
                      !.calls = Append(@, [feature |-> f, found |-> v.found,
                                           safety |-> v.safety, failed |-> failed])]
  IN IF Gate(v)
     THEN [j1 EXCEPT !.unsafe = Append(@, [name |-> f, index |-> m, safety |-> v.safety])]
     ELSE j1

\* analyzeFile runs on until checkFeature misses the cache or the last
\* pattern is done
RECURSIVE RunAnalysis(_, _)
RunAnalysis(j, c) ==
  IF j.pat > Len(AnPatterns) THEN [j EXCEPT !.st = "done"]
  ELSE LET ms == {i \in (j.last + 1)..Len(j.text) : j.text[i] = AnPatterns[j.pat].tok}
       IN IF ms = {} THEN RunAnalysis([j EXCEPT !.pat = @ + 1, !.last = 0], c)
          ELSE IF AnPatterns[j.pat].feature \in DOMAIN c
               THEN RunAnalysis(AnalyzeMatch(j, SetMin(ms), c[AnPatterns[j.pat].feature],
                                             FALSE), c)
               ELSE [j EXCEPT !.st = "wait"]

\* analyzeFile returns and the command's loop body updates the report
SettleAnalysis(j, tm) ==
  LET u == j.unsafe
      n(P(_)) == Len(SelectSeq(u, P))
  IN /\ IF j.st = "done"
        THEN /\ job' = NoJob
             /\ log' = Append(log, [path |-> j.path, input |-> j.text, calls |-> j.calls,
                                    unsafeFeatures |-> u])
             /\ cli' = [cli EXCEPT
                  !.queue = Tail(@),
                  !.report = [@ EXCEPT
                     !.filesWithIssues = IF u # <<>> THEN @ + 1 ELSE @,
                     !.totalIssues = @ + Len(u),
                     !.issuesByFeature =
                        [f \in DOMAIN @ |-> @[f] + n(LAMBDA x : x.name = f)],
                     !.issuesBySafety =
                        [unsafe |-> @.unsafe + n(LAMBDA x : x.safety = "unsafe"),
                         caution |-> @.caution + n(LAMBDA x : x.safety = "caution")]]]
        ELSE job' = j /\ UNCHANGED <<log, cli>>
     /\ pending' = IF j.st = "wait"
                   THEN {[owner |-> "job", key |-> AnPatterns[j.pat].feature,
                          fresh |-> Fresh(AnPatterns[j.pat].feature, tm)]}
                   ELSE {}

\* `baseline-codemod analyze <files> [--report]`
CliAnalyze(files, report) ==
  /\ app = "analyze"
  /\ cli.status = "idle"
  /\ cli' = [status |-> "running", files |-> files, queue |-> files, withReport |-> report,
             report |-> [totalFiles |-> Len(files), filesWithIssues |-> 0,
                         totalIssues |-> 0,
                         issuesByFeature |->
                           [f \in {AnPatterns[i].feature : i \in DOMAIN AnPatterns} |-> 0],
                         issuesBySafety |-> [unsafe |-> 0, caution |-> 0]]]
  /\ UNCHANGED <<app, disk, api, apiBudget, cache, timers, pending, job, log, edVars,
                 lint, locked>>

\* codemod.analyzeFile(file): read the file and run up to the first cache miss
AnalyzeFile ==
  /\ app = "analyze"
  /\ cli.status = "running"
  /\ job.st = "idle"
  /\ cli.queue # <<>>
  /\ LET path == Head(cli.queue)
     IN IF disk[path] = Unreadable
        THEN \* readFileSync throws; the command's catch block exits with 1
             /\ cli' = [cli EXCEPT !.status = "exit1"]
             /\ UNCHANGED <<job, log, pending>>
        ELSE SettleAnalysis(RunAnalysis([st |-> "run", path |-> path, text |-> disk[path],
                                         pat |-> 1, last |-> 0, unsafe |-> <<>>,
                                         calls |-> <<>>], cache), timers)
  /\ UNCHANGED <<app, disk, api, apiBudget, cache, timers, edVars, lint, locked>>

\* the axios.post of checkFeature settles during analyzeFile; a failure is
\* reported with console.warn and answered with the fallback
RespondAnalysis(ans) ==
  /\ app = "analyze"
  /\ job.st = "wait"
  /\ LET f == AnPatterns[job.pat].feature
         ok == ans # "fail"
         c1 == Store(cache, f, IF ok THEN Data(ans) ELSE Fallback, ok)
         tm1 == IF ok THEN timers \cup {[key |-> f, rem |-> TicksPerTTL]} ELSE timers
         m == SetMin({i \in (job.last + 1)..Len(job.text) :
                        job.text[i] = AnPatterns[job.pat].tok})
     IN /\ ans \in Answers(f)
        /\ AnswerEffect(f, ans)
        /\ cache' = c1
        /\ timers' = tm1
        /\ SettleAnalysis(RunAnalysis(AnalyzeMatch(job, m, IF ok THEN Data(ans) ELSE Fallback,
                                                   ~ok), c1), tm1)
  /\ UNCHANGED <<app, disk, edVars, lint, locked>>

\* the command ends after its loop: summary, the report file when asked for,
\* exit code 0
AnalyzeDone ==
  /\ app = "analyze"
  /\ cli.status = "running"
  /\ job.st = "idle"
  /\ cli.queue = <<>>
  /\ cli' = [cli EXCEPT !.status = "exit0"]
  /\ LET W == AnalyzeWrites(cli.files, cli.withReport)
     IN disk' = [f \in DOMAIN disk \cup W |-> IF f \in W THEN <<"report">> ELSE disk[f]]
  /\ UNCHANGED <<app, api, apiBudget, cache, timers, pending, job, log, edVars, lint,
                 locked>>

\* the working directories analysed: a script, alone or next to a style
\* sheet or a directory that the pattern matches too
AnalyzeDisks ==
  LET texts == {<<"fetch(", "w", "fetch(">>, <<"fetch(", "<dialog">>, <<"G", "G">>, <<"w">>}
  IN {("b.js" :> t) : t \in texts}
       \cup {("b.js" :> t) @@ ("c.css" :> u) :
               t \in texts, u \in {<<"fetch(">>, <<"G">>, Unreadable}}

InitAnalyze ==
  /\ app = "analyze"
  /\ disk \in AnalyzeDisks
  /\ locked = {}
  /\ api = <<>>
  /\ apiBudget = 0
  /\ cache = <<>>
  /\ timers = {}
  /\ pending = {}
  /\ cli = [status |-> "idle"]
  /\ job = NoJob
  /\ log = <<>>
  /\ doc = <<>>
  /\ rw = NoRewrite
  /\ ret = NoRet
  /\ callsLeft = 0
  /\ lint = NoLint

NextAnalyze ==
  \/ \E files \in {<<f>> : f \in DOMAIN disk} \cup {<<"b.js", "c.css">>}, report \in BOOLEAN :
       SeqToSet(files) \subseteq DOMAIN disk /\ CliAnalyze(files, report)
  \/ AnalyzeFile
  \/ \E ans \in ApiAnswers : RespondAnalysis(ans)
  \/ AnalyzeDone

SpecAnalyze == InitAnalyze /\ [][NextAnalyze]_vars

\* ------------------------------------------------- the classifier server
\* number of requests one behaviour of the server answers
MaxRequests == 3

\* webFeatures.features: status.baseline of the features of the data set
\* ("none": a status without a baseline value)
WebFeatures == [grid |-> "high", has |-> "low", dialog |-> "false", odd |-> "none"]

\* feature strings a request can carry: known names, a name to normalise, an
\* unknown name, the empty string, a property every JavaScript object has
FeatureStrings == {"grid", " Grid", "has", "dialog", "odd", "nope", "", "constructor"}

\* checkFeature(featureName) of checkFeature.js: the fields of the object it
\* returns, or a TypeError thrown on `status.baseline`
CheckFeatureJs(featureName) ==
  LET normalizedName == Normalize(featureName)
  IN IF normalizedName = "constructor" THEN [threw |-> TRUE]
     ELSE IF normalizedName \notin DOMAIN WebFeatures
     THEN [threw |-> FALSE, fields |-> {"found", "feature", "message", "suggestions"},
           found |-> FALSE, safety |-> "undefined"]
     ELSE LET baseline == WebFeatures[normalizedName]
          IN [threw |-> FALSE,
              fields |-> {"found", "feature", "name", "safety", "baseline", "recommendation"},
              found |-> TRUE,
              safety |-> CASE baseline = "high" -> "safe"
                           [] baseline = "low" -> "caution"
                           [] baseline = "false" -> "unsafe"
                           [] OTHER -> "unknown"]

\* app.post('/isSafe'): the status and JSON body sent for a request body
\* { feature }
IsSafe(feature) ==
  IF feature = ""
  THEN [status |-> 400, fields |-> {"error", "message", "example"},
        found |-> FALSE, safety |-> "undefined"]
  ELSE LET result == CheckFeatureJs(feature)
       IN IF result.threw
          THEN [status |-> 500, fields |-> {"error", "message"},
                found |-> FALSE, safety |-> "undefined"]
          ELSE [status |-> IF result.found THEN 200 ELSE 404,
                fields |-> result.fields \cup {"query", "timestamp"}
                             \cup (IF result.found THEN {"isSafe", "canUse"} ELSE {}),
                found |-> result.found, safety |-> result.safety]

\* the server answers one more request; log keeps what it has sent
PostIsSafe(feature) ==
  /\ app = "server"
  /\ Len(log) < MaxRequests
  /\ log' = Append(log, [query |-> feature, response |-> IsSafe(feature)])
  /\ UNCHANGED <<app, disk, api, apiBudget, cache, timers, pending, cli, job, edVars, lint,
                 locked>>

InitServer ==
  /\ app = "server"
  /\ disk = <<>>
  /\ locked = {}
  /\ api = <<>>
  /\ apiBudget = 0
  /\ cache = <<>>
  /\ timers = {}
  /\ pending = {}
  /\ cli = [status |-> "idle"]
  /\ job = NoJob
  /\ log = <<>>
  /\ doc = <<>>
  /\ rw = NoRewrite
  /\ ret = NoRet
  /\ callsLeft = 0
  /\ lint = NoLint

NextServer == \E feature \in FeatureStrings : PostIsSafe(feature)

SpecServer == InitServer /\ [][NextServer]_vars

\* the editor with a custom rule added by a caller of the rewriter
\* the flags of the regular expression of a pushed rule: global, or not
CustomFlags == {"gi", "i"}
NextCustom ==
  \/ NextEditor
  \/ \E flags \in CustomFlags : AddCustomRewriteRule(flags)
  \/ Elapse
SpecCustom == InitEditor({<<"G">>, <<"G", "w", "G">>, <<"fetch(", "q", "u", "q", ")">>}, 1, 0)
                /\ [][NextCustom]_vars

\* BaselineChecker.clearCache()
ClearCache ==
  /\ app = "editor"
  /\ cache # <<>>
  /\ cache' = <<>>
  /\ UNCHANGED <<app, api, apiBudget, timers, pending, codVars, edVars, lint>>

\* the editor's checker under concurrent callers, tick by tick
InitTimed == InitEditor({<<"G">>}, MaxCalls, 0)
NextTimed ==
  \/ NextEditor
  \/ \E d \in 1..TicksPerTTL : Tick(d)
  \/ ClearCache
SpecTimed == InitTimed /\ [][NextTimed]_vars

\* ------------------------------------------------ vocabulary of the properties
Overlap(a, b) == a.start < b.end /\ b.start < a.end

\* what a rewrite for feature f leaves in the output: a node kind or a CSS token
ArtefactKind(f) ==
  CASE f = "fetch" -> "cond"
    [] f = "string-replaceall" -> "replace"
    [] f = "promise-allsettled" -> "polycall"
    [] OTHER -> "none"
ArtefactTok(f) ==
  CASE f = "grid" -> "F"
    [] f = "container-queries" -> "S"
    [] OTHER -> "none"
Artefacts(t, f) ==
  Len(Find(t, ArtefactKind(f), 0))
    + SumSeq([i \in DOMAIN Find(t, "tpl", 0) |->
                Len(SelectSeq(ConcatAll(Find(t, "tpl", 0)[i].node.css),
                              LAMBDA x : x = ArtefactTok(f)))])

\* the Transformations of a pass that lie in the part of the source the
\* verdict of call c decided upon
InScope(trans, c) ==
  {k \in DOMAIN trans : /\ trans[k].feature = c.feature
                        /\ trans[k].start >= c.start /\ trans[k].end <= c.end}

\* the calls of every pass the codemod has made or is making
PassCalls(e) == {e.calls[k] : k \in DOMAIN e.calls}

\* C2 (safety gating): a matched occurrence whose feature the classifier
\* reports as safe produces no Transformation and is not rewritten, in the
\* codemod for each catalogued feature and in the editor rewriter's suggestions.
C2_SafeNeverRewritten ==
  /\ \A i \in DOMAIN log : \A c \in PassCalls(log[i]) :
       c.safety = "safe" =>
         /\ InScope(log[i].result.transformations, c) = {}
         /\ (\A c2 \in PassCalls(log[i]) : c2.feature = c.feature => c2.safety = "safe")
              => Artefacts(log[i].result.source, c.feature)
                   = Artefacts(log[i].input, c.feature)
  /\ rw.st # "idle" =>
       \A k \in DOMAIN rw.calls :
         rw.calls[k].safety = "safe" =>
           /\ InScope(rw.rewrites, rw.calls[k]) = {}
           /\ \A u \in DOMAIN rw.unsafe :
                ~(rw.unsafe[u].name = rw.calls[k].feature
                  /\ rw.unsafe[u].start = rw.calls[k].start)

\* a pass met a safe feature and a non-safe one: only the latter was rewritten
C2_Witness ==
  \E i \in DOMAIN log :
    /\ \E c \in PassCalls(log[i]) : c.safety = "safe"
    /\ log[i].result.hasChanges
    /\ log[i].result.transformations # <<>>

\* C3 (idempotence): an apply-mode run over the output of a previous
\* apply-mode run, the verdicts being the same, changes nothing and records no
\* Transformation.
C3_Idempotent ==
  \A i, k \in DOMAIN log :
    (/\ i < k
     /\ ~log[i].dryRun /\ ~log[k].dryRun
     /\ log[i].result.hasChanges
     /\ log[k].path = log[i].path
     /\ log[k].input = log[i].result.source)
    => (~log[k].result.hasChanges /\ log[k].result.transformations = <<>>)

\* C4 (range disjointness): the Transformations of one pass over a file, and
\* the rewrite suggestions of one analyzeAndRewrite call, cover pairwise
\* disjoint ranges of the original source.
C4_RangesDisjoint ==
  /\ \A i \in DOMAIN log :
       LET tr == log[i].result.transformations
       IN \A a, b \in DOMAIN tr : a # b => ~Overlap(tr[a], tr[b])
  /\ rw.st # "idle" =>
       \A a, b \in DOMAIN rw.rewrites : a # b => ~Overlap(rw.rewrites[a], rw.rewrites[b])

\* the matches of a codemod pass whose feature got a non-safe verdict
Flagged(e) ==
  UNION {{[feature |-> c.feature, start |-> m.start, end |-> m.end] :
            m \in SeqToSet(Find(e.input, JSKind(c.feature), 0))} :
         c \in {d \in PassCalls(e) : d.feature \in SeqToSet(JSFeatures)
                                      /\ d.found /\ d.safety # "safe"}}

Listed(trans, m) ==
  \E k \in DOMAIN trans :
    trans[k].feature = m.feature /\ trans[k].start = m.start /\ trans[k].end = m.end

\* C5 (conflict policy): of two overlapping matches with non-safe verdicts the
\* one that starts earlier is rewritten and the later one is absent from the
\* Transformation list of the pass.
C5_EarlierWins ==
  /\ \A i \in DOMAIN log : \A m1, m2 \in Flagged(log[i]) :
       (m1.start < m2.start /\ Overlap(m1, m2)) =>
         /\ Listed(log[i].result.transformations, m1)
         /\ ~Listed(log[i].result.transformations, m2)
  /\ rw.st = "done" =>
       \A a, b \in DOMAIN rw.calls :
         (/\ IsUnsafe(rw.calls[a]) /\ IsUnsafe(rw.calls[b])
          /\ rw.calls[a].start < rw.calls[b].start
          /\ Overlap(rw.calls[a], rw.calls[b]))
         => (Listed(rw.rewrites, rw.calls[a]) /\ ~Listed(rw.rewrites, rw.calls[b]))

FailedCalls ==
  UNION {{c \in PassCalls(log[i]) : c.failed} : i \in DOMAIN log}
    \cup (IF job.st # "idle" THEN {c \in PassCalls(job) : c.failed} ELSE {})
    \cup (IF rw.st # "idle" THEN {c \in PassCalls(rw) : c.failed} ELSE {})
    \cup (IF ret.owner # "none" /\ ret.failed THEN {ret} ELSE {})
    \cup (IF app = "eslint" THEN {c \in PassCalls(lint) : c.failed} ELSE {})

\* C7 (fallback verdict): when the external call fails or times out, each of
\* the three gateways returns found = false and safety = 'unknown'.
C7_FallbackUnknown ==
  \A c \in FailedCalls : ~c.found /\ c.safety = "unknown"

C9_NoRequestWhileFresh ==
  \A r \in pending : ~r.fresh

\* C10 (removal by own expiry only): an entry stays in the cache until the TTL
\* of its own write has elapsed; while the timer of a write is still pending
\* the key is in the cache.
C10_OnlyOwnExpiry ==
  \A t \in timers : t.key \in DOMAIN cache

\* C11 (single-flight): at no time are two external requests for the same
\* feature outstanding; a caller arriving while a request is in flight waits
\* for that request instead of issuing its own.
C11_SingleFlight ==
  \A r1, r2 \in pending : r1.key = r2.key => r1 = r2

\* the command has ended
Terminal == cli.status \in {"exit0", "exit1"}
\* transformFile returned a result for file f in the present run
Processed(f) == \E i \in DOMAIN log : log[i].path = f /\ log[i].run = cli.run

\* C12 (parse failures do not abort the batch): when the transform command
\* has ended without a write failure, every file of the batch that parses
\* has been processed; a file that does not parse is skipped.
C12_ParseErrorSkipsFile ==
  (Terminal /\ cli.error # "write") =>
    \A f \in SeqToSet(cli.files) : Processed(f) \/ ~Parses(disk[f])

\* C13 (write failures are contained): when persisting a file failed, the
\* result computed for that file has still been returned and the other files
\* of the batch have been processed.
C13_WriteErrorContained ==
  (Terminal /\ cli.error = "write") =>
    /\ Processed(Head(cli.queue))
    /\ \A f \in SeqToSet(cli.files) : Processed(f) \/ ~Parses(disk[f])

\* the terminal state of a finished single-file run
Persisted(e) == e.wrote
Reported(e) == ~e.wrote

\* C14 (terminal states): a run of the pipeline over one file ends Persisted
\* exactly when the mode is apply and the result differs from the input, and
\* Reported otherwise; a parse error ends the run before any feature has been
\* matched or checked.
C14_TerminalStates ==
  /\ \A i \in DOMAIN log :
       /\ Persisted(log[i]) <=> (~log[i].dryRun /\ log[i].result.source # log[i].input)
       /\ Reported(log[i]) <=> (log[i].dryRun \/ log[i].result.source = log[i].input)
  /\ (app = "codemod" /\ cli.status = "exit1" /\ cli.error = "parse") =>
       job = NoJob /\ pending = {}

\* C15 (all safe, nothing changes): when every feature a pass matched was
\* classified safe, the result has hasChanges = false, no Transformations and
\* the input text itself as its source.
C15_AllSafeUnchanged ==
  \A i \in DOMAIN log :
    (\A c \in PassCalls(log[i]) : c.safety = "safe") =>
      /\ ~log[i].result.hasChanges
      /\ log[i].result.transformations = <<>>
      /\ log[i].result.source = log[i].input

\* a pass over a file with a CSS template literal, whose features were all safe
C15_Witness ==
  \E i \in DOMAIN log :
    /\ \E c \in PassCalls(log[i]) : c.feature \in {"grid", "container-queries"}
    /\ \A c \in PassCalls(log[i]) : c.safety = "safe"
    /\ log[i].result.source = log[i].input

\* what the catalogue prescribes for a tree: every call of one of the kinds
\* replaced by its wrapper, receiver and arguments in place and in order
RECURSIVE CarriedOver(_, _)
CarriedOver(t, kinds) ==
  LET me == [t EXCEPT !.ch = [i \in DOMAIN t.ch |-> CarriedOver(t.ch[i], kinds)]]
  IN IF t.k \in kinds THEN Wrap(t.k, me) ELSE me

\* the call kinds a pass was allowed to rewrite
GatedKinds(e) ==
  {JSKind(c.feature) : c \in {d \in PassCalls(e) : d.feature \in SeqToSet(JSFeatures) /\ Gate(d)}}

\* C16 (rewrites carry receiver and arguments): in a file without CSS, after a
\* pass every recv.replaceAll(a, b) of a non-safe feature has become
\* recv.replace(new RegExp(a, 'g'), b) and every non-safe fetch and
\* Promise.allSettled call is wrapped around its original argument list, and
\* there is one 'string-replaceall' Transformation per replaceAll call.
C16_ArgumentsCarriedOver ==
  \A i \in DOMAIN log :
    (CountCss(log[i].input) = 0 /\ log[i].result.hasChanges) =>
      /\ log[i].result.source = CarriedOver(log[i].input, GatedKinds(log[i]))
      /\ "replaceAll" \in GatedKinds(log[i]) =>
           Len(SelectSeq(log[i].result.transformations,
                         LAMBDA x : x.feature = "string-replaceall"))
             = Len(Find(log[i].input, "replaceAll", 0))

\* the occurrences of feature f in a source file: the calls of its kind, or
\* for a CSS feature the places in the template literals its pattern matches
RECURSIVE CountTok(_, _)
CountTok(sq, toks) ==
  IF sq = <<>> THEN 0
  ELSE (IF Head(sq) \in toks THEN 1 ELSE 0) + CountTok(Tail(sq), toks)
Occurrences(t, f) ==
  IF f \in SeqToSet(JSFeatures) THEN Len(Find(t, JSKind(f), 0))
  ELSE LET css == CssStrings(t)
       IN SumSeq([i \in DOMAIN css |->
                    CountTok(JoinQuasis(css[i].node.css), IF f = "grid" THEN {"G"} ELSE {"C", "N", "AT"})])

\* C17 (every occurrence recorded): for a feature a pass was allowed to
\* rewrite, the result lists as many Transformations of that feature as the
\* file has occurrences of it, several in one template literal included.
C17_EveryOccurrenceRecorded ==
  \A i \in DOMAIN log : \A c \in PassCalls(log[i]) :
    Gate(c) =>
      Len(SelectSeq(log[i].result.transformations, LAMBDA x : x.feature = c.feature))
        = Occurrences(log[i].input, c.feature)

\* a list of records with a start position is in source order
InSourceOrder(list) ==
  \A a, b \in DOMAIN list : a < b => list[a].start <= list[b].start

\* C18 (source order): the Transformations of a TransformResult, and the
\* rewrites of a RewriteResult, are listed by non-decreasing start position
\* in the original source.
C18_SourceOrder ==
  /\ \A i \in DOMAIN log : InSourceOrder(log[i].result.transformations)
  /\ rw.st = "done" => InSourceOrder(rw.rewrites)

\* one pass over a template: each placeholder replaced by the text it stands
\* for, taken literally; everything else kept
RECURSIVE OnePass(_, _)
OnePass(template, groups) ==
  IF template = <<>> THEN <<>>
  ELSE LET t == Head(template)
           group(n) == IF n + 1 <= Len(groups) THEN groups[n + 1] ELSE <<>>
       IN (CASE t = "$1" -> group(1)
             [] t = "$2" -> group(2)
             [] t = "$&" -> groups[1]
             [] OTHER -> <<t>>) \o OnePass(Tail(template), groups)

\* the rule that produced a rewrite, and the match it was produced from
RuleOf(x) == CHOOSE r \in DOMAIN RuleFeatures : RuleFeatures[r] = x.feature
MatchOf(x) == Exec(RuleOf(x), rw.text, x.start)

\* C19 (template substitution): the new code of every rewrite is its rule's
\* template with $1, $2 replaced by the literal text of that capture (empty
\* when absent) and $& by the matched text, in one pass: inserted text is not
\* expanded again and the other characters are unchanged.
C19_TemplateSubstitution ==
  rw.st # "idle" =>
    \A k \in DOMAIN rw.rewrites :
      rw.rewrites[k].newCode
        = OnePass(RuleTo[RuleOf(rw.rewrites[k])], MatchOf(rw.rewrites[k]).groups)

\* C20 (back-to-front application): applyRewrites issues its edits by
\* non-increasing start offset, each range is that of a match in the document
\* as it was analysed, and the range of an edit lies wholly before every edit
\* issued ahead of it, so no edit shifts or rewrites a range still to come.
C20_BackToFront ==
  rw.st \in {"applied", "rejected"} =>
    /\ \A a, b \in DOMAIN rw.rewrites :
         a < b => /\ rw.rewrites[a].start >= rw.rewrites[b].start
                  /\ rw.rewrites[b].end <= rw.rewrites[a].start
    /\ \A k \in DOMAIN rw.rewrites :
         /\ MatchOf(rw.rewrites[k]).index = rw.rewrites[k].start
         /\ MatchOf(rw.rewrites[k]).end = rw.rewrites[k].end

\* C21 (atomic write): whatever happens while a file is persisted, a crash
\* included, the file on disk holds a complete text, the original or the
\* rewritten one, never a part of one.
C21_AtomicWrite ==
  app = "codemod" => \A f \in DOMAIN disk : disk[f].k # "torn"

\* C22 (one warning per feature and TTL window): in an analyze run shorter
\* than the TTL, however many classify calls for one feature fail, the
\* unavailability of the classifier is reported for that feature once.
C22_WarnOncePerWindow ==
  app = "analyze" =>
    \A p \in DOMAIN AnPatterns :
      LET warns(calls) ==
            Len(SelectSeq(calls, LAMBDA c : c.failed /\ c.feature = AnPatterns[p].feature))
      IN SumSeq([i \in DOMAIN log |-> warns(log[i].calls)])
           + (IF job.st = "idle" THEN 0 ELSE warns(job.calls)) <= 1

\* C23 (patterns by source kind): in transform and in analyze the script
\* patterns (fetch, replaceAll, Promise.allSettled) are looked for only in
\* files with a script extension, and the markup patterns (dialog, lazy
\* loading) are not looked for in script files.
C23_PatternsBySourceKind ==
  \A i \in DOMAIN log : \A k \in DOMAIN log[i].calls :
    /\ log[i].calls[k].feature \in SeqToSet(JSFeatures) => IsJSFile(log[i].path)
    /\ log[i].calls[k].feature \in {"dialog", "lazy-loading"} => ~IsJSFile(log[i].path)

C26_ReportConsistent ==
  (app = "analyze" /\ cli.status = "exit0") =>
    LET r == cli.report
        feats == [i \in DOMAIN AnPatterns |-> r.issuesByFeature[AnPatterns[i].feature]]
    IN /\ r.totalIssues = SumSeq(feats)
       /\ r.totalIssues = r.issuesBySafety.unsafe + r.issuesBySafety.caution
       /\ r.filesWithIssues <= r.totalFiles
       /\ r.filesWithIssues <= r.totalIssues

\* C27 (analyze exits with 0): whatever the files and whatever fails while
\* reading them or asking the classifier, the analyze command does not end
\* with a non-zero exit code.
C27_AnalyzeExitsZero ==
  app = "analyze" => cli.status # "exit1"

\* C29 (expressions preserved): a template literal with k interpolated
\* expressions still has k expressions, between the same pieces of text,
\* after transformCSS has rewritten it.
C29_ExpressionsPreserved ==
  \A i \in DOMAIN log :
    LET before == Find(log[i].input, "tpl", 0)
        after == Find(log[i].result.source, "tpl", 0)
    IN /\ Len(after) = Len(before)
       /\ \A k \in DOMAIN before : Len(after[k].node.css) = Len(before[k].node.css)

\* C30 (match, classify, rewrite): in a pass over a file the classifier is
\* asked about a feature only when the file holds an occurrence of it, and
\* every Transformation of the pass is for a feature whose verdict the pass
\* had obtained, also while a later request is still in flight.
C30_MatchClassifyRewrite ==
  LET ordered(input, calls, trans) ==
        /\ \A k \in DOMAIN calls : Occurrences(input, calls[k].feature) > 0
        /\ \A t \in DOMAIN trans :
             \E k \in DOMAIN calls : calls[k].feature = trans[t].feature /\ Gate(calls[k])
  IN /\ \A i \in DOMAIN log :
          ordered(log[i].input, log[i].calls, log[i].result.transformations)
     /\ (app = "codemod" /\ job.st = "wait") =>
          /\ Occurrences(job.source, StageFeature(job)) > 0
          /\ ordered(job.source, job.calls, job.trans)

\* a pass rewrote the occurrences of the one feature it found and asked
\* about no other
C30_Witness ==
  \E i \in DOMAIN log :
    /\ Len(log[i].calls) = 1
    /\ ~log[i].calls[1].hit
    /\ log[i].result.transformations # <<>>

\* C28 (shape of a verdict): every response to a request that carries a
\* feature string has a boolean found and a safety out of safe, caution,
\* unsafe, unknown, also for a feature the data set does not know.
C28_ResponseShape ==
  app = "server" =>
    \A i \in DOMAIN log :
      /\ {"found", "safety"} \subseteq log[i].response.fields
      /\ log[i].response.safety \in Tiers

\* C24 (one record per span): when the patterns of two features match the
\* same span of a document, only the rule that comes first in the catalogue
\* gives a rewrite for that span, custom rules included.
C24_FirstPatternWins ==
  rw.st # "idle" =>
    \A a, b \in DOMAIN rw.rewrites :
      (/\ rw.rewrites[a].start = rw.rewrites[b].start
       /\ rw.rewrites[a].end = rw.rewrites[b].end) => a = b

\* C31 (every occurrence reported): once the checks of a lint run have all
\* settled, every detected node whose feature got a verdict that passes the
\* severity threshold in that run has a report, a later node of the same
\* feature included.
C31_EveryOccurrenceReported ==
  app = "eslint" =>
    \A run \in 1..lint.run :
      (\A q \in lint.pendingChecks : q.run # run) =>
        \A n \in DOMAIN Events(lint.src) : \A k \in DOMAIN lint.calls :
          (/\ lint.calls[k].run = run
           /\ lint.calls[k].feature = Events(lint.src)[n].feature
           /\ LintGate(lint.calls[k], lint.severity))
          => \E r \in DOMAIN lint.reports :
               lint.reports[r].run = run /\ lint.reports[r].node = n

\* C32 (files of a batch are independent): the TransformResult of a file that
\* was processed after another file of the same run equals the result the same
\* file with the same text gets when it is the first file of a run; the file
\* processed before it leaves at most cache entries behind.
C32_BatchIndependent ==
  \A i, k \in DOMAIN log :
    (/\ log[i].path = log[k].path /\ log[i].input = log[k].input
     /\ \E h \in 1..(i - 1) : log[h].run = log[i].run /\ log[h].path # log[i].path
     /\ \A h \in 1..(k - 1) : log[h].run # log[k].run)
    => log[i].result = log[k].result

C32_Witness ==
  \E i, k \in DOMAIN log :
    /\ log[i].path = log[k].path /\ log[i].input = log[k].input
    /\ \E h \in 1..(i - 1) : log[h].run = log[i].run /\ log[h].path # log[i].path
    /\ \A h \in 1..(k - 1) : log[h].run # log[k].run
    /\ \E c \in DOMAIN log[i].calls : log[i].calls[c].hit
    /\ log[i].result.hasChanges

\* C33 (summary counts): when a batch has run to its summary, "Files modified"
\* is the number of files of that run whose result has hasChanges, "Total
\* transformations" is the sum of the lengths of the transformation lists of
\* exactly those files, and "Files modified" is at most "Files processed".
C33_SummaryCounts ==
  (app = "codemod" /\ cli.status = "exit0") =>
    LET changed == {i \in DOMAIN log : log[i].run = cli.run /\ log[i].result.hasChanges}
        Sum[n \in 0..Len(log)] ==
          IF n = 0 THEN 0
          ELSE Sum[n - 1] + (IF n \in changed THEN Len(log[n].result.transformations) ELSE 0)
    IN /\ cli.totalFiles = Cardinality(changed)
       /\ cli.totalTransformations = Sum[Len(log)]
       /\ cli.totalFiles <= Len(cli.files)

C33_Witness ==
  /\ app = "codemod" /\ cli.status = "exit0"
  /\ Len(cli.files) = 2
  /\ cli.totalFiles = 1
  /\ cli.totalTransformations >= 1
  /\ \E i \in DOMAIN log : log[i].run = cli.run /\ ~log[i].result.hasChanges

\* C34 (threshold): every report of the lint rule carries a verdict that
\* passes the configured threshold: an unsafe verdict under severity 'unsafe',
\* an unsafe or caution verdict under 'caution', and under no severity a safe
\* verdict.
C34_ReportPassesThreshold ==
  app = "eslint" =>
    \A r \in DOMAIN lint.reports :
      /\ lint.severity = "unsafe" => lint.reports[r].safety = "unsafe"
      /\ lint.severity = "caution" => lint.reports[r].safety \in {"unsafe", "caution"}
      /\ lint.reports[r].safety # "safe"

\* C35 (no stale verdict): whenever checkFeature of the codemod answers from
\* its cache, the entry it returns was stored less than one TTL before: the
\* eviction timer armed with it has not come due.
C35_NoStaleVerdict ==
  [][app = "codemod" =>
       LET before == IF job.st = "idle" THEN 0 ELSE Len(job.calls)
           after == IF Len(log') > Len(log) THEN log'[Len(log')].calls
                    ELSE IF job'.st = "idle" THEN <<>> ELSE job'.calls
       IN \A n \in (before + 1)..Len(after) :
            after[n].hit =>
              \E t \in timers' : t.key = after[n].feature /\ t.rem > 0]_vars

\* C36 (only successful responses are cached): every entry of a cache is the
\* verdict of a response, never a fallback, and whenever the content of the
\* cache changes for a feature, the new entry is the response the external
\* source gave successfully in that step; a call that fails leaves the cache
\* as it was.
C36_OnlySuccessCached ==
  [][LET Val(c, f) == IF app = "eslint" THEN c[f].data ELSE c[f]
     IN \A f \in DOMAIN cache' :
          /\ Val(cache', f).found
          /\ (f \notin DOMAIN cache \/ Val(cache', f) # Val(cache, f))
             => /\ f \in DOMAIN api'
                /\ api'[f] # "fail"
                /\ Val(cache', f) = Data(api'[f])]_vars

C36_Witness ==
  /\ app = "editor"
  /\ rw.st # "idle"
  /\ \E i, k \in DOMAIN rw.calls :
       /\ i < k
       /\ rw.calls[i].feature = rw.calls[k].feature
       /\ rw.calls[i].failed
       /\ ~rw.calls[k].failed /\ ~rw.calls[k].hit
       /\ Normalize(rw.calls[k].feature) \in DOMAIN cache
       /\ cache[Normalize(rw.calls[k].feature)] = Data(api[Normalize(rw.calls[k].feature)])

\* C37 (hasChanges and the Transformation list agree): the result of
\* transformSource has hasChanges exactly when its Transformation list is
\* non-empty, and when hasChanges holds its source differs from the input.
C37_ChangesMeanDifference ==
  \A i \in DOMAIN log :
    /\ log[i].result.hasChanges <=> log[i].result.transformations # <<>>
    /\ log[i].result.hasChanges => log[i].result.source # log[i].input

\* C38 (unsafeFeatures and rewrites are paired): in the RewriteResult that
\* analyzeAndRewrite returns, unsafeFeatures and rewrites have the same length,
\* rewrites[i] is the suggestion for the occurrence unsafeFeatures[i] describes,
\* and hasUnsafeFeatures is true exactly when that length is not zero.
C38_PairedLists ==
  (app = "editor" /\ rw.st = "done") =>
    /\ Len(rw.unsafe) = Len(rw.rewrites)
    /\ \A i \in DOMAIN rw.rewrites :
         /\ i \in DOMAIN rw.unsafe
         /\ rw.rewrites[i].start = rw.unsafe[i].start
         /\ rw.rewrites[i].end = rw.unsafe[i].start + rw.unsafe[i].length
    /\ HasUnsafeFeatures(rw) <=> Len(rw.rewrites) # 0

C38_Witness ==
  /\ app = "editor" /\ rw.st = "done"
  /\ Len(rw.unsafe) >= 2
  /\ rw.unsafe[1].start # rw.unsafe[2].start
  /\ Len(rw.rewrites) = Len(rw.unsafe)

\* C39 (analyzeAndRewrite terminates): the match loop of a rule advances past
\* every match it handles and so never gets the same match again, also for a
\* rule pushed through addCustomRewriteRule whose pattern lacks the global
\* flag.
C39_LoopAdvances ==
  app = "editor" => rw.st # "spin"

\* ------------------------------------------------------------- properties
\* C1 (dry-run non-mutation): when transformFile returns from a dry-run call
\* the file on disk holds what it held when the call read it, whatever
\* hasChanges says.
C1_DryRunLeavesDisk ==
  \A i \in DOMAIN log : log[i].dryRun => log[i].after = log[i].input

\* a dry-run call that found something to change has returned
C1_Witness ==
  \E i \in DOMAIN log :
    /\ log[i].dryRun
    /\ log[i].result.hasChanges
    /\ log[i].result.source # log[i].input
    /\ disk[log[i].path] = log[i].input

=============================================================================
